---- MODULE Spec2Model ----
(***************************************************************************)
(* datastreamX: the article service.  A cache-aside read path              *)
(* (ArticleUseCase.get_article), article creation                          *)
(* (ArticleUseCase.create_article), the store behind them                  *)
(* (ArticleRepository), the request-scoped store session (get_db) and the  *)
(* HTTP endpoint GET /articles/{id}.                                       *)
(*                                                                         *)
(* Requests run concurrently: every call a handler makes on the cache or   *)
(* on the store is one atomic step of that request, and the steps of       *)
(* different requests interleave freely (the code holds no lock).          *)
(***************************************************************************)
EXTENDS Integers, Sequences, FiniteSets, TLC

\* ------------------------------------------------------------------ bounds
\* Number of request slots that can be in flight at the same time.
NumReq == 2
\* Number of rows the store may come to hold.
MaxArticles == 2

\* ------------------------------------------------------- program constants
\* Article(id=None, ...): the id of an article that was never saved.
NoId == 0
\* The status FastAPI gives a returned value when the route names none.
HTTP_OK == 200
\* The second element of the tuple the endpoint returns on a miss.
NOT_FOUND == 404

Reqs == 1..NumReq
\* Ids a request may ask for: each is unknown to the store until the store
\* assigns it.
Ids == 1..MaxArticles
\* Titles and contents that create_article is given (the empty string included).
Titles == {"", "a"}
Contents == {"b"}

\* ------------------------------------------------------------------ values
\* Python values that flow through the service, as records of one shape.
PyValue(kind, id, title, content) ==
    [kind |-> kind, id |-> id, title |-> title, content |-> content]

\* Python's None.
None == PyValue("None", NoId, "", "")
\* A falsy value other than None (an empty string, 0, an empty dict, ...).
Empty == PyValue("empty", NoId, "", "")
\* No entry under a cache key.
Absent == PyValue("absent", NoId, "", "")

\* An Article object.
Article(id, title, content) == PyValue("Article", id, title, content)

\* An article some other writer left in the cache; the store never holds it.
Stale(id) == Article(id, "stale", "stale")

\* Python truthiness as `if cached_article:` and `if article:` take it: an
\* Article instance is truthy, None and empty values are not.
Truthy(v) == v.kind = "Article"

\* ------------------------------------------------------------------- cache
\* The mutant of CacheKey: one key for every article.
CacheKeyConstant(article_id) == <<"article:", 1>>

\* f"article:{article_id}"
CacheKey(article_id) == <<"article:", article_id>>

Keys == {CacheKey(i) : i \in Ids}

\* cache_repo.get(key): the value under the key, None when there is none.
CacheRepoGet(c, key) == IF c[key] = Absent THEN None ELSE c[key]

\* cache_repo.set(key, value)
CacheRepoSet(c, key, value) == [c EXCEPT ![key] = value]

\* ------------------------------------------------------------------- store
\* The mutant of GetById: the filter on the id is lost.
GetByIdUnfiltered(table, article_id) ==
    IF Len(table) = 0 THEN None ELSE table[1]

\* db.query(Article).filter(Article.id == article_id).first()
GetById(table, article_id) ==
    LET hits == {i \in 1..Len(table) : table[i].id = article_id}
    IN  IF hits = {} THEN None
        ELSE table[CHOOSE i \in hits : \A j \in hits : i <= j]

\* The mutant of SavedArticle: the row is stored but the object keeps id None.
SavedArticleNoId(table, article) == article

\* The article object after db.add(article); db.commit(): the insert gave it
\* the next id of the table.
SavedArticle(table, article) == [article EXCEPT !.id = Len(table) + 1]

\* The table after db.add(article); db.commit().
SaveRows(table, article) ==
    Append(table, [article EXCEPT !.id = Len(table) + 1])

\* The mutant of NewArticle: title and content change places.
NewArticleSwapped(title, content) == Article(NoId, content, title)

\* Article(id=None, title=title, content=content)
NewArticle(title, content) == Article(NoId, title, content)

\* ---------------------------------------------------------------- endpoint
\* What the endpoint function returns, and what FastAPI makes of it.
NoResponse == [status |-> 0, json |-> "none", data |-> None, error |-> "", code |-> 0]

\* return {"data": article}
ReturnData(article) ==
    [py |-> "dict", data |-> article, error |-> "", code |-> 0]

\* return {"error": "Article not found"}, 404
ReturnNotFound ==
    [py |-> "tuple", data |-> None, error |-> "Article not found", code |-> NOT_FOUND]

\* FastAPI's rendering of a returned value that is not a Response: the route's
\* status (200 by default), and the value encoded as JSON; a tuple is encoded
\* as a JSON array of its elements.
Render(ret) ==
    [status |-> HTTP_OK,
     json   |-> IF ret.py = "tuple" THEN "array" ELSE "object",
     data   |-> ret.data,
     error  |-> ret.error,
     code   |-> ret.code]

\* The endpoint after the use case returned, and FastAPI after the endpoint:
\* if article: return {"data": article}
\* return {"error": "Article not found"}, 404
Endpoint(article) ==
    IF Truthy(article) THEN Render(ReturnData(article))
    ELSE Render(ReturnNotFound)

\* The way the endpoint is left with this result of the use case.
ExitPath(article) == IF Truthy(article) THEN "data" ELSE "not_found"

\* ------------------------------------------------------------------- state
VARIABLES
    store,      \* the articles table, in insertion order
    cache,      \* the cache: key -> value, Absent where there is no entry
    req,        \* the request slots
    sawDone     \* per request: the requests on the same id whose service call
                \* had returned when this one read the cache

vars == <<store, cache, req, sawDone>>

IdleReq ==
    [op |-> "none", pc |-> "idle", id |-> NoId, title |-> "", content |-> "",
     cached |-> None, article |-> None, result |-> None,
     storeCalls |-> 0, cacheSets |-> 0, saves |-> 0,
     before |-> Absent, left |-> Absent,
     db |-> "none", closes |-> 0, raised |-> FALSE, exit |-> "",
     response |-> NoResponse]

\* The service call of the request has returned a value.
Returned(q) ==
    /\ ~q.raised
    /\ \/ q.op = "get" /\ q.pc = "teardown"
       \/ q.op = "create" /\ q.pc = "done"

\* The caches another writer may have left behind: under the key of the first
\* id, nothing, a falsy value, or an article the store does not hold.
WarmCaches ==
    {[k \in Keys |-> IF k = CacheKey(1) THEN v ELSE Absent] :
        v \in {Absent, Empty, Stale(1)}}

\* The service starts in front of an empty store and an empty cache.
Init ==
    /\ store = <<>>
    /\ cache = [k \in Keys |-> Absent]
    /\ req = [r \in Reqs |-> IdleReq]
    /\ sawDone = [r \in Reqs |-> {}]

\* The service starts in front of a cache another writer has used.
WarmInit ==
    /\ store = <<>>
    /\ cache \in WarmCaches
    /\ req = [r \in Reqs |-> IdleReq]
    /\ sawDone = [r \in Reqs |-> {}]

\* ----------------------------------------------------------------- actions
\* GET /articles/{id} arrives: get_db opens the request's session
\* (db = SessionLocal(); yield db) and the endpoint builds the use case.
BeginGet(r) ==
    /\ req[r].pc = "idle"
    /\ \E i \in Ids :
         req' = [req EXCEPT ![r] =
                   [IdleReq EXCEPT !.op = "get", !.pc = "cache_get", !.id = i,
                                   !.db = "open"]]
    /\ UNCHANGED <<store, cache, sawDone>>

\* cached_article = self.cache_repo.get(f"article:{article_id}")
\* if cached_article: return cached_article
CacheGet(r) ==
    /\ req[r].op = "get" /\ req[r].pc = "cache_get"
    /\ LET got == CacheRepoGet(cache, CacheKey(req[r].id))
       IN  req' = [req EXCEPT ![r] =
                     IF Truthy(got)
                     THEN [@ EXCEPT !.cached = got, !.result = got,
                                    !.left = cache[CacheKey(req[r].id)],
                                    !.response = Endpoint(got),
                                    !.exit = ExitPath(got),
                                    !.pc = "teardown"]
                     ELSE [@ EXCEPT !.cached = got, !.pc = "store_get"]]
    /\ sawDone' = [sawDone EXCEPT ![r] =
                     {q \in Reqs \ {r} :
                        /\ Returned(req[q])
                        /\ req[q].op = "get" /\ req[q].id = req[r].id}]
    /\ UNCHANGED <<store, cache>>

\* The mutant of StoreGet: the cache is written whatever the store returned.
StoreGetAlwaysCaches(r) ==
    /\ req[r].op = "get" /\ req[r].pc = "store_get"
    /\ req' = [req EXCEPT ![r] =
                 [@ EXCEPT !.article = GetById(store, req[r].id),
                           !.storeCalls = @ + 1, !.pc = "cache_set"]]
    /\ UNCHANGED <<store, cache, sawDone>>

\* article = self.article_repo.get_by_id(article_id)
\* if article: ...
\* return article
StoreGet(r) ==
    /\ req[r].op = "get" /\ req[r].pc = "store_get"
    /\ LET article == GetById(store, req[r].id)
       IN  req' = [req EXCEPT ![r] =
                     IF Truthy(article)
                     THEN [@ EXCEPT !.article = article, !.storeCalls = @ + 1,
                                    !.pc = "cache_set"]
                     ELSE [@ EXCEPT !.article = article, !.storeCalls = @ + 1,
                                    !.result = article,
                                    !.left = cache[CacheKey(req[r].id)],
                                    !.response = Endpoint(article),
                                    !.exit = ExitPath(article),
                                    !.pc = "teardown"]]
    /\ UNCHANGED <<store, cache, sawDone>>

\* The mutant of CacheSet: the article is returned without being cached.
CacheSetSkipped(r) ==
    /\ req[r].op = "get" /\ req[r].pc = "cache_set"
    /\ req' = [req EXCEPT ![r] =
                 [@ EXCEPT !.result = req[r].article,
                           !.left = cache[CacheKey(req[r].id)],
                           !.response = Endpoint(req[r].article),
                           !.exit = ExitPath(req[r].article),
                           !.pc = "teardown"]]
    /\ UNCHANGED <<store, cache, sawDone>>

\* self.cache_repo.set(f"article:{article_id}", article)
\* return article
CacheSet(r) ==
    /\ req[r].op = "get" /\ req[r].pc = "cache_set"
    /\ cache' = CacheRepoSet(cache, CacheKey(req[r].id), req[r].article)
    /\ req' = [req EXCEPT ![r] =
                 [@ EXCEPT !.result = req[r].article,
                           !.cacheSets = @ + 1,
                           !.before = cache[CacheKey(req[r].id)],
                           !.left = cache'[CacheKey(req[r].id)],
                           !.response = Endpoint(req[r].article),
                           !.exit = ExitPath(req[r].article),
                           !.pc = "teardown"]]
    /\ UNCHANGED <<store, sawDone>>

\* What is left of a request whose handler raised: its locals are gone.
Unwound(q) ==
    [IdleReq EXCEPT !.op = q.op, !.db = q.db, !.raised = TRUE,
                    !.exit = "raised"]

\* The mutant of Raise: the exception leaves get_db without the finally block.
RaiseWithoutFinally(r) ==
    /\ req[r].op = "get"
    /\ req[r].pc \in {"cache_get", "store_get", "cache_set"}
    /\ req' = [req EXCEPT ![r] = [Unwound(req[r]) EXCEPT !.pc = "done"]]
    /\ sawDone' = [sawDone EXCEPT ![r] = {}]
    /\ UNCHANGED <<store, cache>>

\* A cache or store call of the request raises (the collaborator is
\* unavailable): the exception leaves the use case and the endpoint, and is
\* thrown into get_db at its yield.
Raise(r) ==
    /\ req[r].op = "get"
    /\ req[r].pc \in {"cache_get", "store_get", "cache_set"}
    /\ req' = [req EXCEPT ![r] = [Unwound(req[r]) EXCEPT !.pc = "teardown"]]
    /\ sawDone' = [sawDone EXCEPT ![r] = {}]
    /\ UNCHANGED <<store, cache>>

\* What is left of a request once its response is out and its session is
\* released: how it ended, and what became of its session.
Finished(q) ==
    [IdleReq EXCEPT !.op = q.op, !.pc = "done", !.db = "closed",
                    !.closes = q.closes + 1, !.raised = q.raised,
                    !.exit = q.exit]

\* finally: db.close()
Close(r) ==
    /\ req[r].op = "get" /\ req[r].pc = "teardown"
    /\ req' = [req EXCEPT ![r] = Finished(req[r])]
    /\ sawDone' = [q \in Reqs |-> IF q = r THEN {} ELSE sawDone[q] \ {r}]
    /\ UNCHANGED <<store, cache>>

\* The mutant of CreateArticle: the new article is also written to the cache.
CreateArticleWarmsCache(r) ==
    /\ req[r].pc = "idle"
    /\ Len(store) < MaxArticles
    /\ \E title \in Titles, content \in Contents :
         LET article == NewArticle(title, content)
             saved   == SavedArticle(store, article)
         IN  /\ store' = SaveRows(store, article)
             /\ cache' = CacheRepoSet(cache, CacheKey(Len(store) + 1), saved)
             /\ req' = [req EXCEPT ![r] =
                          [IdleReq EXCEPT !.op = "create", !.pc = "done",
                                          !.title = title, !.content = content,
                                          !.article = saved, !.result = saved,
                                          !.saves = Len(store') - Len(store),
                                          !.exit = "data"]]
    /\ UNCHANGED sawDone

\* create_article(title, content):
\*   article = Article(id=None, title=title, content=content)
\*   self.article_repo.save(article)
\*   return article
\* The one call that touches shared state is the save, so the call is one step.
CreateArticle(r) ==
    /\ req[r].pc = "idle"
    /\ Len(store) < MaxArticles
    /\ \E title \in Titles, content \in Contents :
         LET article == NewArticle(title, content)
             saved   == SavedArticle(store, article)
         IN  /\ store' = SaveRows(store, article)
             /\ req' = [req EXCEPT ![r] =
                          [IdleReq EXCEPT !.op = "create", !.pc = "done",
                                          !.title = title, !.content = content,
                                          !.article = saved, !.result = saved,
                                          !.saves = Len(store') - Len(store),
                                          !.exit = "data"]]
    /\ UNCHANGED <<cache, sawDone>>

\* create_article when db.commit() raises: nothing is stored and nothing is
\* returned.
CreateArticleRaises(r) ==
    /\ req[r].pc = "idle"
    /\ req' = [req EXCEPT ![r] =
                 [IdleReq EXCEPT !.op = "create", !.pc = "done",
                                 !.raised = TRUE, !.exit = "raised"]]
    /\ UNCHANGED <<store, cache, sawDone>>

\* The request is over and forgotten; its slot serves the next one.
Forget(r) ==
    /\ req[r].pc = "done"
    /\ req' = [req EXCEPT ![r] = IdleReq]
    /\ sawDone' = [q \in Reqs |-> IF q = r THEN {} ELSE sawDone[q] \ {r}]
    /\ UNCHANGED <<store, cache>>

Next ==
    \E r \in Reqs :
        \/ BeginGet(r)
        \/ CacheGet(r)
        \/ StoreGet(r)
        \/ CacheSet(r)
        \/ Raise(r)
        \/ Close(r)
        \/ CreateArticle(r)
        \/ CreateArticleRaises(r)
        \/ Forget(r)

Spec == Init /\ [][Next]_vars

WarmSpec == WarmInit /\ [][Next]_vars

\* ------------------------------------------------------------------ claims
\* get_article of request r has returned a value to the endpoint.
GetReturned(r) == req[r].op = "get" /\ Returned(req[r])

\* create_article of request r has returned its article.
CreateReturned(r) == req[r].op = "create" /\ Returned(req[r])

\* C1: for an id with an article in the store and no entry in the cache, the
\* first get_article returns the store's article and leaves it in the cache
\* under the id's key; a get_article of the same id that starts after it
\* returned gets the identical value and makes no get_by_id call.
C1_ReadThroughThenHit ==
    \A r \in Reqs :
        (GetReturned(r) /\ req[r].cached = None /\ Truthy(req[r].article)) =>
            /\ req[r].storeCalls = 1
            /\ req[r].result = GetById(store, req[r].id)
            /\ req[r].left = req[r].result
            /\ cache[CacheKey(req[r].id)] = req[r].result
            /\ \A q \in Reqs :
                 r \in sawDone[q] =>
                    /\ GetReturned(q)
                    /\ req[q].result = req[r].result
                    /\ req[q].storeCalls = 0

C1_Witness ==
    \E r \in Reqs, q \in Reqs :
        /\ GetReturned(r) /\ req[r].cached = None /\ Truthy(req[r].article)
        /\ r \in sawDone[q] /\ GetReturned(q)
        /\ req[q].result = req[r].result /\ req[q].storeCalls = 0

\* C2: for an id with an entry in the cache, whatever the cached value is,
\* get_article returns the cached value and never queries the store.
C2_CacheTakesPrecedence ==
    \A r \in Reqs :
        (req[r].op = "get" /\ ~req[r].raised /\ req[r].cached # None) =>
            /\ req[r].storeCalls = 0
            /\ req[r].pc = "teardown" => req[r].result = req[r].cached

\* C3: for an id neither in the store nor in the cache, get_article returns
\* None, makes no cache write and leaves no entry under the id's key; a
\* get_article of the same id that starts after it returned, the store still
\* not holding the id, finds no entry either and queries the store again.
C3_NegativeResultNotCached ==
    \A r \in Reqs :
        (GetReturned(r) /\ req[r].cached = None /\ req[r].storeCalls = 1
                        /\ req[r].article = None) =>
            /\ req[r].result = None
            /\ req[r].exit = "not_found"
            /\ req[r].cacheSets = 0
            /\ req[r].left = Absent
            /\ \A q \in Reqs :
                 (r \in sawDone[q] /\ GetById(store, req[r].id) = None) =>
                    /\ req[q].cached = None
                    /\ cache[CacheKey(req[r].id)] = Absent
                    /\ req[q].pc \in {"store_get", "teardown"}
                    /\ req[q].pc = "teardown" =>
                          (req[q].storeCalls = 1 /\ req[q].result = None)

C3_Witness ==
    \E r \in Reqs, q \in Reqs :
        /\ GetReturned(r) /\ req[r].cached = None /\ req[r].storeCalls = 1
        /\ req[r].article = None /\ req[r].result = None
        /\ r \in sawDone[q] /\ GetReturned(q)
        /\ req[q].storeCalls = 1 /\ req[q].result = None

\* C4: GET /articles/{id} whose get_article result is absent answers with
\* status 404 and the body {"error": "Article not found"}.
C4_NotFoundIs404 ==
    \A r \in Reqs :
        (GetReturned(r) /\ ~Truthy(req[r].result)) =>
            /\ req[r].response.status = NOT_FOUND
            /\ req[r].response.json = "object"
            /\ req[r].response.error = "Article not found"

\* C5: create_article(title, content) saves exactly one new article and
\* returns it with an id the save assigned, the given title and the given
\* content.
C5_CreateReturnsSavedArticle ==
    \A r \in Reqs :
        CreateReturned(r) =>
            /\ Truthy(req[r].result)
            /\ req[r].result.id # NoId
            /\ req[r].result.title = req[r].title
            /\ req[r].result.content = req[r].content
            /\ req[r].saves = 1
            /\ Cardinality({i \in 1..Len(store) : store[i] = req[r].result}) = 1

C5_Witness ==
    \E r \in Reqs :
        /\ CreateReturned(r) /\ req[r].title = "" /\ req[r].result.id = 2
        /\ store[1].title = "a"

\* C6: create_article leaves the cache as it was, and right after it there is
\* no entry under the new id's key; so a get_article that finds the new
\* article reads it from the store first (one get_by_id call) and caches it
\* only then (one cache write, into a key that held nothing).
C6_CreateLeavesCacheCold ==
    /\ [][\A r \in Reqs :
            (req[r].pc = "idle" /\ req'[r].op = "create") =>
                /\ cache' = cache
                /\ ~req'[r].raised =>
                      cache'[CacheKey(req'[r].result.id)] = Absent]_vars
    /\ [](\A q \in Reqs :
            (GetReturned(q) /\ req[q].cached = None /\ Truthy(req[q].result)) =>
                /\ req[q].storeCalls = 1
                /\ req[q].cacheSets = 1
                /\ req[q].left = req[q].result)

C6_Witness ==
    \E r \in Reqs, q \in Reqs :
        /\ CreateReturned(r)
        /\ GetReturned(q) /\ req[q].id = req[r].result.id
        /\ req[q].cached = None /\ req[q].storeCalls = 1 /\ req[q].cacheSets = 1
        /\ req[q].before = Absent
        /\ cache[CacheKey(req[q].id)] = req[r].result

\* C7: a request holds an open session of its own from its start to its end,
\* and when it is finished the session has been closed exactly once, whether
\* the request ended with an article, with not-found or with an exception.
C7_SessionClosedOnEveryExit ==
    \A r \in Reqs :
        /\ req[r].pc = "idle" => req[r].db = "none"
        /\ (req[r].op = "get" /\ req[r].pc # "done") =>
               (req[r].db = "open" /\ req[r].closes = 0)
        /\ (req[r].op = "get" /\ req[r].pc = "done") =>
               /\ req[r].db = "closed"
               /\ req[r].closes = 1
               /\ req[r].exit \in {"data", "not_found", "raised"}

C7_Witness ==
    \E r \in Reqs, q \in Reqs :
        /\ req[r].op = "get" /\ req[r].pc = "done"
        /\ req[r].exit = "raised" /\ req[r].db = "closed" /\ req[r].closes = 1
        /\ req[q].op = "get" /\ req[q].pc = "done"
        /\ req[q].exit = "not_found" /\ req[q].closes = 1

\* C8: after save gave an article its id, get_by_id of that id returns an
\* article with the title and the content that were saved.
C8_StoreRoundTrip ==
    \A r \in Reqs :
        CreateReturned(r) =>
            LET got == GetById(store, req[r].result.id)
            IN  /\ Truthy(got)
                /\ got.title = req[r].title
                /\ got.content = req[r].content

C8_Witness ==
    \E r \in Reqs :
        /\ CreateReturned(r) /\ req[r].result.id = 2 /\ req[r].title = "a"
        /\ store[1].title = ""
        /\ GetById(store, 2).title = "a"

\* C9: the service only inserts into the cache: a key that holds a value keeps
\* exactly that value in every step, and a step of a get_article changes at
\* most the key of its own id.
C9_CacheInsertOnly ==
    [][/\ \A k \in Keys : cache[k] # Absent => cache'[k] = cache[k]
       /\ \A r \in Reqs : \A k \in Keys :
            (req'[r] # req[r] /\ cache'[k] # cache[k]) =>
                (req[r].op = "get" /\ k = CacheKey(req[r].id))]_vars

\* C10: from an empty cache, whatever the interleaving of the requests, every
\* cache entry under an id's key is the article the store holds for that id,
\* and carries that id; there is no entry for an id the store does not hold.
C10_CacheCoherent ==
    \A i \in Ids :
        cache[CacheKey(i)] # Absent =>
            /\ Truthy(GetById(store, i))
            /\ cache[CacheKey(i)] = GetById(store, i)
            /\ cache[CacheKey(i)].id = i

C10_Witness ==
    \E r \in Reqs, q \in Reqs :
        /\ r # q /\ req[r].id = req[q].id
        /\ GetReturned(r) /\ req[r].cacheSets = 1
        /\ GetReturned(q) /\ req[q].cacheSets = 1
        /\ cache[CacheKey(req[r].id)] = GetById(store, req[r].id)

====
